---- MODULE Spec2Model ----
(***************************************************************************)
(* Minesweeper (src/App.tsx): board generation, cell reveal with the       *)
(* recursive bulk reveal, win / loss detection, restart and the timer.     *)
(* The board is a function from coordinates <<row, col>> to Cell records.  *)
(***************************************************************************)
EXTENDS Integers, Sequences, FiniteSets

\* Scaled-down board: the source plays 10 x 10 with 10 mines.  The model
\* plays BOARD_SIZE x BOARD_SIZE with all but SafeCells cells mined, so that
\* a game can be played to its end within the bounds.
BOARD_SIZE == 3
SafeCells == 4
MINES_COUNT == BOARD_SIZE * BOARD_SIZE - SafeCells
\* Cap on the elapsed seconds the model follows.
MaxTimer == 2
\* Cap on the number of flags set at one time.
MaxFlags == 1
\* Cap on the elapsed seconds the clock alone is followed to.
MaxSeconds == 130

VARIABLES board, isGameOver, isGameWon, showAllMines, timer, isTimerActive, last

vars == <<board, isGameOver, isGameWon, showAllMines, timer, isTimerActive, last>>

Index == 0..(BOARD_SIZE - 1)
Cells == Index \X Index

\* Coordinates a caller may hand to openCell, one step outside the grid included.
AnyIndex == (-1)..BOARD_SIZE

----------------------------------------------------------------------------
(* Board creation *)

blankBoard ==
  [p \in Cells |-> [isMine |-> FALSE, isOpen |-> FALSE,
                    isFlagged |-> FALSE, adjacentMines |-> 0]]

\* board[row][col].isMine = true
setMine(b, p) == [b EXCEPT ![p] = [@ EXCEPT !.isMine = TRUE]]

\* The boards the placing loop can hold once MINES_COUNT mines are placed,
\* boards being those it can hold with minesPlaced mines.  An iteration
\* samples a cell t[2] on a board t[1]; a sample that hits a cell already
\* mined changes nothing and the loop samples again.
RECURSIVE placeMines(_, _)
placeMinesOffByOne(boards, minesPlaced) ==
  IF minesPlaced <= MINES_COUNT
  THEN placeMines({ setMine(s[1], s[2]) :
                      s \in {t \in boards \X Cells : ~t[1][t[2]].isMine} },
                  minesPlaced + 1)
  ELSE boards

placeMines(boards, minesPlaced) ==
  IF minesPlaced < MINES_COUNT
  THEN placeMines({ setMine(s[1], s[2]) :
                      s \in {t \in boards \X Cells : ~t[1][t[2]].isMine} },
                  minesPlaced + 1)
  ELSE boards

directionsNoDiagonal ==
  << <<-1, 0>>, <<0, -1>>, <<0, 1>>, <<1, 0>> >>

directions ==
  << <<-1, -1>>, <<-1, 0>>, <<-1, 1>>,
     <<0, -1>>,             <<0, 1>>,
     <<1, -1>>,  <<1, 0>>,  <<1, 1>> >>

inBounds(row, col) ==
  row >= 0 /\ row < BOARD_SIZE /\ col >= 0 /\ col < BOARD_SIZE

\* The neighbouring cells of (row, col), as the coordinates of the Cell
\* objects the source returns, in the order of directions.
getAdjacentCells(b, row, col) ==
  LET mapped == [i \in 1..Len(directions) |->
                   <<row + directions[i][1], col + directions[i][2]>>]
      notNull(q) == inBounds(q[1], q[2])
  IN SelectSeq(mapped, notNull)

countAdjacentMines(b, row, col) ==
  LET adjacentCells == getAdjacentCells(b, row, col)
  IN Cardinality({i \in 1..Len(adjacentCells) : b[adjacentCells[i]].isMine})

fillAdjacentMines(b) ==
  [p \in Cells |->
     IF ~b[p].isMine
     THEN [b[p] EXCEPT !.adjacentMines = countAdjacentMines(b, p[1], p[2])]
     ELSE b[p]]

\* Every board createBoard() can return.
createBoard == { fillAdjacentMines(b) : b \in placeMines({blankBoard}, 0) }

----------------------------------------------------------------------------
(* Timer formatting: a string is the sequence of its characters *)

digitChars == <<"0", "1", "2", "3", "4", "5", "6", "7", "8", "9">>

\* The decimal text JavaScript gives a whole number n >= 0 in a template.
RECURSIVE numberToString(_)
numberToString(n) ==
  IF n < 10
  THEN <<digitChars[n + 1]>>
  ELSE numberToString(n \div 10) \o <<digitChars[(n % 10) + 1]>>

formatTimeNoPadding(seconds) ==
  LET mins == seconds \div 60
      secs == seconds % 60
  IN numberToString(mins) \o <<":">> \o numberToString(secs)

formatTime(seconds) ==
  LET mins == seconds \div 60
      secs == seconds % 60
  IN numberToString(mins) \o <<":">>
       \o (IF secs < 10 THEN <<"0">> ELSE <<>>) \o numberToString(secs)

----------------------------------------------------------------------------
(* Reveal *)

\* A Cell object is truthy in JavaScript, whatever its fields.
truthy(cell) == TRUE

RECURSIVE openCellRecursive(_, _, _)
RECURSIVE forEachNeighbor(_, _, _, _, _)

forEachNeighbor(b, row, col, neighbors, index) ==
  IF index > Len(neighbors)
  THEN b
  ELSE LET nr == row + (IF truthy(b[neighbors[index]]) THEN 1 ELSE 0)
           nc == col + (IF truthy(b[neighbors[index]]) THEN 1 ELSE 0)
       IN forEachNeighbor(openCellRecursive(b, nr, nc), row, col, neighbors, index + 1)

\* isOpen = !isOpen in place of isOpen = true, without the test of isOpen.
openCellRecursiveToggles(b, row, col) ==
  IF row < 0 \/ row >= BOARD_SIZE \/ col < 0 \/ col >= BOARD_SIZE
  THEN b
  ELSE IF b[<<row, col>>].isMine
  THEN b
  ELSE LET opened == [b EXCEPT ![<<row, col>>].isOpen = ~@]
       IN IF opened[<<row, col>>].isOpen /\ opened[<<row, col>>].adjacentMines = 0
          THEN forEachNeighbor(opened, row, col, getAdjacentCells(opened, row, col), 1)
          ELSE opened

\* Opens a cell only if its count is 0.
openCellRecursiveSkipsNumbered(b, row, col) ==
  IF row < 0 \/ row >= BOARD_SIZE \/ col < 0 \/ col >= BOARD_SIZE
  THEN b
  ELSE IF b[<<row, col>>].isOpen \/ b[<<row, col>>].isMine
  THEN b
  ELSE IF b[<<row, col>>].adjacentMines = 0
  THEN LET opened == [b EXCEPT ![<<row, col>>].isOpen = TRUE]
       IN forEachNeighbor(opened, row, col, getAdjacentCells(opened, row, col), 1)
  ELSE b

\* Clears the count of the cell it opens.
openCellRecursiveClearsCount(b, row, col) ==
  IF row < 0 \/ row >= BOARD_SIZE \/ col < 0 \/ col >= BOARD_SIZE
  THEN b
  ELSE IF b[<<row, col>>].isOpen \/ b[<<row, col>>].isMine
  THEN b
  ELSE LET opened ==
             [b EXCEPT ![<<row, col>>] = [@ EXCEPT !.isOpen = TRUE, !.adjacentMines = 0]]
       IN IF b[<<row, col>>].adjacentMines = 0
          THEN forEachNeighbor(opened, row, col, getAdjacentCells(opened, row, col), 1)
          ELSE opened

\* Without the test of isMine, and spreading from every opened cell.
openCellRecursiveOverMines(b, row, col) ==
  IF row < 0 \/ row >= BOARD_SIZE \/ col < 0 \/ col >= BOARD_SIZE
  THEN b
  ELSE IF b[<<row, col>>].isOpen
  THEN b
  ELSE LET opened == [b EXCEPT ![<<row, col>>].isOpen = TRUE]
       IN forEachNeighbor(opened, row, col, getAdjacentCells(opened, row, col), 1)

openCellRecursive(b, row, col) ==
  IF row < 0 \/ row >= BOARD_SIZE \/ col < 0 \/ col >= BOARD_SIZE
  THEN b
  ELSE IF b[<<row, col>>].isOpen \/ b[<<row, col>>].isMine
  THEN b
  ELSE LET opened == [b EXCEPT ![<<row, col>>].isOpen = TRUE]
       IN IF opened[<<row, col>>].adjacentMines = 0
          THEN forEachNeighbor(opened, row, col, getAdjacentCells(opened, row, col), 1)
          ELSE opened

\* The same function with its run recorded: t.board is the board the calls
\* mutate, t.calls the number of calls entered, t.opens the cells assigned
\* isOpen = true, in order, t.spread the cells whose neighbours were visited.
RECURSIVE openCellRecursiveRun(_, _, _)
RECURSIVE forEachNeighborRun(_, _, _, _, _)

forEachNeighborRun(t, row, col, neighbors, index) ==
  IF index > Len(neighbors)
  THEN t
  ELSE LET nr == row + (IF truthy(t.board[neighbors[index]]) THEN 1 ELSE 0)
           nc == col + (IF truthy(t.board[neighbors[index]]) THEN 1 ELSE 0)
       IN forEachNeighborRun(openCellRecursiveRun(t, nr, nc),
                             row, col, neighbors, index + 1)

\* Without the test of isOpen.
openCellRecursiveRunReopens(t, row, col) ==
  LET entered == [t EXCEPT !.calls = @ + 1]
  IN IF row < 0 \/ row >= BOARD_SIZE \/ col < 0 \/ col >= BOARD_SIZE
     THEN entered
     ELSE IF entered.board[<<row, col>>].isMine
     THEN entered
     ELSE LET opened ==
                [entered EXCEPT
                   !.board = [@ EXCEPT ![<<row, col>>] = [@ EXCEPT !.isOpen = TRUE]],
                   !.opens = Append(@, <<row, col>>)]
          IN IF opened.board[<<row, col>>].adjacentMines = 0
             THEN forEachNeighborRun(
                    [opened EXCEPT !.spread = @ \cup {<<row, col>>}], row, col,
                    getAdjacentCells(opened.board, row, col), 1)
             ELSE opened

openCellRecursiveRun(t, row, col) ==
  LET entered == [t EXCEPT !.calls = @ + 1]
  IN IF row < 0 \/ row >= BOARD_SIZE \/ col < 0 \/ col >= BOARD_SIZE
     THEN entered
     ELSE IF entered.board[<<row, col>>].isOpen \/ entered.board[<<row, col>>].isMine
     THEN entered
     ELSE LET opened ==
                [entered EXCEPT
                   !.board = [@ EXCEPT ![<<row, col>>] = [@ EXCEPT !.isOpen = TRUE]],
                   !.opens = Append(@, <<row, col>>)]
          IN IF opened.board[<<row, col>>].adjacentMines = 0
             THEN forEachNeighborRun(
                    [opened EXCEPT !.spread = @ \cup {<<row, col>>}], row, col,
                    getAdjacentCells(opened.board, row, col), 1)
             ELSE opened

\* The run of one outermost call openCellRecursive(b, row, col).
runOf(b, row, col) ==
  openCellRecursiveRun([board |-> b, calls |-> 0, opens |-> <<>>, spread |-> {}],
                       row, col)

checkWinFirstRowOnly(b) ==
  \A col \in Index : ~(~b[<<0, col>>].isMine /\ ~b[<<0, col>>].isOpen)

checkWinSomeRow(b) ==
  \E row \in Index : \A col \in Index :
     ~(~b[<<row, col>>].isMine /\ ~b[<<row, col>>].isOpen)

checkWin(b) ==
  \A row \in Index : \A col \in Index :
     ~(~b[<<row, col>>].isMine /\ ~b[<<row, col>>].isOpen)

\* The early return without its second operand.
gameEndedOnlyOver == isGameOver

\* The early return without its first operand.
gameEndedOnlyWon == isGameWon

\* The game has ended: the first two operands of openCell's early return.
gameEnded == isGameOver \/ isGameWon

\* openCell(row, col).  Reading board[row][col] outside the grid throws a
\* TypeError before any setter runs; last = "threw" records it.
OpenCell(row, col) ==
  IF gameEnded
  THEN /\ last' = "noop_ended"
       /\ UNCHANGED <<board, isGameOver, isGameWon, showAllMines, timer, isTimerActive>>
  ELSE IF ~inBounds(row, col)
  THEN /\ last' = "threw"
       /\ UNCHANGED <<board, isGameOver, isGameWon, showAllMines, timer, isTimerActive>>
  ELSE IF board[<<row, col>>].isOpen
  THEN /\ last' = "noop_open"
       /\ UNCHANGED <<board, isGameOver, isGameWon, showAllMines, timer, isTimerActive>>
  ELSE IF board[<<row, col>>].isFlagged
  THEN /\ last' = "noop_flagged"
       /\ UNCHANGED <<board, isGameOver, isGameWon, showAllMines, timer, isTimerActive>>
  ELSE LET newBoard == openCellRecursive(board, row, col)
       IN /\ board' = newBoard
          /\ IF newBoard[<<row, col>>].isMine
             THEN /\ isGameOver' = TRUE
                  /\ showAllMines' = TRUE
                  /\ isTimerActive' = FALSE
                  /\ last' = "mine"
                  /\ UNCHANGED <<isGameWon, timer>>
             ELSE IF checkWin(newBoard)
             THEN /\ isGameWon' = TRUE
                  /\ isTimerActive' = FALSE
                  /\ last' = "safe"
                  /\ UNCHANGED <<isGameOver, showAllMines, timer>>
             ELSE /\ last' = "safe"
                  /\ UNCHANGED <<isGameOver, isGameWon, showAllMines, timer, isTimerActive>>

\* A press on a rendered cell, which is disabled once the game has ended.
Press ==
  /\ ~(isGameOver \/ isGameWon)
  /\ \E row \in Index : \E col \in Index : OpenCell(row, col)

\* openCell called in any state with coordinates of the grid.
Tap == \E row \in Index : \E col \in Index : OpenCell(row, col)

\* openCell called in any state with any coordinates, the grid's outside included.
Call == \E row \in AnyIndex : \E col \in AnyIndex : OpenCell(row, col)

\* Without setTimer(0).
RestartGameKeepsTimer ==
  /\ isGameOver \/ isGameWon
  /\ board' \in createBoard
  /\ isGameOver' = FALSE
  /\ isGameWon' = FALSE
  /\ showAllMines' = FALSE
  /\ isTimerActive' = TRUE
  /\ last' = "restart"
  /\ UNCHANGED timer

\* restartGame(), from the button that is rendered once the game has ended.
RestartGame ==
  /\ isGameOver \/ isGameWon
  /\ board' \in createBoard
  /\ isGameOver' = FALSE
  /\ isGameWon' = FALSE
  /\ showAllMines' = FALSE
  /\ timer' = 0
  /\ isTimerActive' = TRUE
  /\ last' = "restart"

\* The interval callback, which runs while isTimerActive.
TickNotCleared ==
  /\ timer < MaxTimer
  /\ timer' = timer + 1
  /\ last' = "tick"
  /\ UNCHANGED <<board, isGameOver, isGameWon, showAllMines, isTimerActive>>

Tick ==
  /\ isTimerActive
  /\ timer < MaxTimer
  /\ timer' = timer + 1
  /\ last' = "tick"
  /\ UNCHANGED <<board, isGameOver, isGameWon, showAllMines, isTimerActive>>

\* The interval callback again, followed for MaxSeconds seconds.
Clock ==
  /\ isTimerActive
  /\ timer < MaxSeconds
  /\ timer' = timer + 1
  /\ last' = "tick"
  /\ UNCHANGED <<board, isGameOver, isGameWon, showAllMines, isTimerActive>>

\* toggle_flag(board, row, col): flips is_flagged only when the cell is not open.
flagCount == Cardinality({p \in Cells : board[p].isFlagged})

ToggleFlag ==
  \E row \in Index : \E col \in Index :
    /\ ~board[<<row, col>>].isOpen
    /\ board[<<row, col>>].isFlagged \/ flagCount < MaxFlags
    /\ board' = [board EXCEPT ![<<row, col>>].isFlagged = ~board[<<row, col>>].isFlagged]
    /\ last' = "flag"
    /\ UNCHANGED <<isGameOver, isGameWon, showAllMines, timer, isTimerActive>>

Init ==
  /\ board \in createBoard
  /\ isGameOver = FALSE
  /\ isGameWon = FALSE
  /\ showAllMines = FALSE
  /\ timer = 0
  /\ isTimerActive = TRUE
  /\ last = "init"

\* The application as its view drives it.
Next == Press \/ RestartGame

Spec == Init /\ [][Next]_vars

\* The application with its timer.
NextApp == Press \/ RestartGame \/ Tick

SpecApp == Init /\ [][NextApp]_vars

\* Every handler of the component: openCell called in any state, the restart
\* button, the interval.
NextHandlers == Tap \/ RestartGame \/ Tick

SpecHandlers == Init /\ [][NextHandlers]_vars

\* The timer alone, its text rendered as formatTime(timer).
NextClock == Clock

SpecClock == Init /\ [][NextClock]_vars

\* One game, from a generated board to its end.
NextGame == Press

SpecGame == Init /\ [][NextGame]_vars

\* One game in which openCell is called whatever the state.
NextTap == Tap

SpecTap == Init /\ [][NextTap]_vars

\* One game in which openCell is called whatever the state and coordinates.
NextCall == Call

SpecCall == Init /\ [][NextCall]_vars

\* One game with flags.
NextFlag == Press \/ ToggleFlag

SpecFlag == Init /\ [][NextFlag]_vars

\* The board createBoard() returns when one mine is asked for and the
\* sample is (0, 0), and one game on it.
singleMineBoard == fillAdjacentMines(setMine(blankBoard, <<0, 0>>))

InitSingle ==
  /\ board = singleMineBoard
  /\ isGameOver = FALSE
  /\ isGameWon = FALSE
  /\ showAllMines = FALSE
  /\ timer = 0
  /\ isTimerActive = TRUE
  /\ last = "init"

NextSingle == Press

SpecSingle == InitSingle /\ [][NextSingle]_vars

----------------------------------------------------------------------------
(* Vocabulary of the properties *)

Abs(n) == IF n < 0 THEN -n ELSE n

\* The cells at Chebyshev distance 1 of p, within the grid.
Neighbours(p) ==
  {q \in Cells : q # p /\ Abs(q[1] - p[1]) <= 1 /\ Abs(q[2] - p[2]) <= 1}

Mines(b) == {p \in Cells : b[p].isMine}

ZeroCell(b, p) == ~b[p].isMine /\ b[p].adjacentMines = 0

AllSafeOpen(b) == \A p \in Cells : b[p].isMine \/ b[p].isOpen

\* The maximal 8-connected region of zero-count cells that contains S.
RECURSIVE ZeroRegion(_, _)
ZeroRegion(b, S) ==
  LET grown == S \cup {q \in Cells : ZeroCell(b, q) /\ \E z \in S : q \in Neighbours(z)}
  IN IF grown = S THEN S ELSE ZeroRegion(b, grown)

\* That region and the numbered cells on its border.
FloodArea(b, p) ==
  LET region == ZeroRegion(b, {p})
  IN region \cup {q \in Cells : ~b[q].isMine /\ \E z \in region : q \in Neighbours(z)}

\* openCell(row, col) is called on a closed, unflagged cell of a running game.
Revealable(row, col) ==
  /\ ~isGameOver /\ ~isGameWon
  /\ inBounds(row, col)
  /\ ~board[<<row, col>>].isOpen
  /\ ~board[<<row, col>>].isFlagged

----------------------------------------------------------------------------
(* Properties *)

\* C1: a reveal of a closed, unflagged zero-count cell in a running game
\* opens the whole maximal 8-connected zero-count region around it and the
\* numbered cells bordering that region.
C1_FloodFillComplete ==
  [][\A row \in Index : \A col \in Index :
       (/\ Revealable(row, col)
        /\ ZeroCell(board, <<row, col>>)
        /\ OpenCell(row, col))
       => \A q \in FloodArea(board, <<row, col>>) : board'[q].isOpen]_vars

\* C2: a reveal of a closed, unflagged mine in a running game opens that
\* cell, ends the game as lost and leaves the other mines as they were.
C2_LossOpensTheMine ==
  [][\A row \in Index : \A col \in Index :
       (/\ Revealable(row, col)
        /\ board[<<row, col>>].isMine
        /\ OpenCell(row, col))
       => /\ board'[<<row, col>>].isOpen
          /\ isGameOver'
          /\ \A q \in Mines(board) \ {<<row, col>>} :
               board'[q].isOpen = board[q].isOpen]_vars

\* C3: the game is won exactly when every cell without a mine is open, and
\* a reveal of a cell without a mine never ends the game as lost.
C3_WinIffAllSafeOpen ==
  /\ isGameWon <=> AllSafeOpen(board)
  /\ last = "safe" => ~isGameOver

\* C3 witness: a reveal of a safe cell has just won the game.
C3_Witness == last = "safe" /\ isGameWon /\ AllSafeOpen(board)

\* C4: a reveal of an open cell, of a flagged cell or in an ended game
\* changes neither the board nor the outcome.
C4_RevealNoOp ==
  [][/\ ((isGameOver \/ isGameWon) /\ \E row \in AnyIndex : \E col \in AnyIndex :
                                         OpenCell(row, col))
        => UNCHANGED <<board, isGameOver, isGameWon>>
     /\ \A row \in Index : \A col \in Index :
          ((board[<<row, col>>].isOpen \/ board[<<row, col>>].isFlagged)
             /\ OpenCell(row, col))
          => UNCHANGED <<board, isGameOver, isGameWon>>]_vars

\* C4 witness: openCell was called after the game was lost, with cells open.
C4_Witness ==
  /\ last = "noop_ended"
  /\ isGameOver
  /\ \E p \in Cells : board[p].isOpen

\* C5: a reveal outside the grid does not throw and changes neither the
\* board nor the outcome.
C5_OutOfBoundsSilent ==
  [][\A row \in AnyIndex : \A col \in AnyIndex :
       (~inBounds(row, col) /\ OpenCell(row, col))
       => /\ last' # "threw"
          /\ UNCHANGED <<board, isGameOver, isGameWon>>]_vars

\* C6: the board holds exactly MINES_COUNT mines, through reveals and restarts.
C6_MineCount == Cardinality(Mines(board)) = MINES_COUNT

\* C6 witness: a restart has just generated a board.
C6_Witness == last = "restart" /\ Cardinality(Mines(board)) = MINES_COUNT

\* C7: a cell without a mine stores the number of mines among its Chebyshev
\* neighbours within the grid, and getAdjacentCells yields exactly those
\* neighbours: 3 in a corner, 5 on an edge, 8 inside, never the cell itself.
C7_AdjacentMines ==
  \A p \in Cells :
    LET adj == getAdjacentCells(board, p[1], p[2])
        onEdge(i) == i = 0 \/ i = BOARD_SIZE - 1
    IN /\ ~board[p].isMine =>
            board[p].adjacentMines = Cardinality({q \in Neighbours(p) : board[q].isMine})
       /\ {adj[i] : i \in 1..Len(adj)} = Neighbours(p)
       /\ Len(adj) = IF onEdge(p[1]) /\ onEdge(p[2]) THEN 3
                     ELSE IF onEdge(p[1]) \/ onEdge(p[2]) THEN 5
                     ELSE 8

\* C7 witness: a corner cell, an edge cell and the inner cell carry a count
\* above 0 on a generated board.
C7_Witness ==
  /\ ~board[<<0, 0>>].isMine /\ board[<<0, 0>>].adjacentMines > 0
  /\ ~board[<<0, 1>>].isMine /\ board[<<0, 1>>].adjacentMines > 0
  /\ ~board[<<1, 1>>].isMine /\ board[<<1, 1>>].adjacentMines > 0

\* C8: in a won game every cell without a mine is open and no mine is open.
C8_WinSnapshot ==
  isGameWon => \A p \in Cells : board[p].isOpen <=> ~board[p].isMine

\* C8 witness: a won game, its mines closed.
C8_Witness ==
  /\ isGameWon
  /\ Mines(board) # {}
  /\ \A p \in Mines(board) : ~board[p].isOpen

\* C9: on the board whose only mine is at (0, 0), a reveal of a closed
\* zero-count cell opens every cell without a mine and wins the game.
C9_SingleMineWin ==
  [][\A row \in Index : \A col \in Index :
       (/\ Mines(board) = {<<0, 0>>}
        /\ Revealable(row, col)
        /\ ZeroCell(board, <<row, col>>)
        /\ OpenCell(row, col))
       => AllSafeOpen(board') /\ isGameWon']_vars

\* C10: a cell that is flagged and closed before a reveal is closed after it.
C10_FlaggedStaysClosed ==
  [][\A row \in Index : \A col \in Index :
       OpenCell(row, col)
       => \A q \in Cells :
            (board[q].isFlagged /\ ~board[q].isOpen) => ~board'[q].isOpen]_vars

C12_OpenIsMonotonic ==
  [][RestartGame \/ \A p \in Cells : board[p].isOpen => board'[p].isOpen]_vars

\* C12 witness: a second has elapsed since a reveal, and cells are open.
C12_Witness == last = "tick" /\ \E p \in Cells : board[p].isOpen

\* The number a sequence of digit characters writes, -1 if some character
\* is no digit.
RECURSIVE DecimalValue(_)
DecimalValue(text) ==
  IF text = <<>> THEN 0
  ELSE LET c == text[Len(text)]
           rest == DecimalValue(SubSeq(text, 1, Len(text) - 1))
       IN IF rest < 0 \/ ~(\E d \in 0..9 : digitChars[d + 1] = c)
          THEN -1
          ELSE 10 * rest + (CHOOSE d \in 0..9 : digitChars[d + 1] = c)

\* C13: the rendered time is the decimal of floor(s/60) without padding, a
\* colon, and s mod 60 in exactly two digits; 0 -> "0:00", 59 -> "0:59",
\* 60 -> "1:00", 125 -> "2:05".
C13_FormatTime ==
  LET text == formatTime(timer)
      n == Len(text)
  IN /\ n >= 4
     /\ text[n - 2] = ":"
     /\ DecimalValue(SubSeq(text, n - 1, n)) = timer % 60
     /\ DecimalValue(SubSeq(text, 1, n - 3)) = timer \div 60
     /\ n - 3 > 1 => text[1] # "0"
     /\ timer = 0 => text = <<"0", ":", "0", "0">>
     /\ timer = 59 => text = <<"0", ":", "5", "9">>
     /\ timer = 60 => text = <<"1", ":", "0", "0">>
     /\ timer = 125 => text = <<"2", ":", "0", "5">>

\* C13 witness: 125 seconds have elapsed and the text is "2:05".
C13_Witness ==
  last = "tick" /\ timer = 125 /\ formatTime(timer) = <<"2", ":", "0", "5">>

\* C14: a reveal whose target is not a mine leaves is_open of every mine as
\* it was, so it opens no mine.
C14_SafeRevealOpensNoMine ==
  [][last' = "safe"
       => \A p \in Cells :
            board[p].isMine => board'[p].isOpen = board[p].isOpen]_vars

\* C14 witness: a reveal of a zero-count cell has spread to its diagonal
\* neighbour, and every mine is still closed.
C14_Witness ==
  /\ last = "safe"
  /\ \E p \in Cells :
       /\ ZeroCell(board, p) /\ board[p].isOpen
       /\ <<p[1] + 1, p[2] + 1>> \in Cells
       /\ board[<<p[1] + 1, p[2] + 1>>].isOpen
  /\ Mines(board) # {}
  /\ \A m \in Mines(board) : ~board[m].isOpen

\* C15: on every board and for every target coordinate one reveal call
\* finishes within 1 + 8 * (cells opened) calls, assigns is_open to no cell
\* twice, visits neighbours only from zero-count cells, and leaves the board
\* the reveal leaves.
C15_FloodFillTerminates ==
  \A row \in AnyIndex, col \in AnyIndex :
    LET t == runOf(board, row, col)
    IN /\ t.calls <= 1 + 8 * Len(t.opens)
       /\ Len(t.opens) <= Cardinality(Cells)
       /\ \A i, j \in 1..Len(t.opens) : t.opens[i] = t.opens[j] => i = j
       /\ \A p \in t.spread : board[p].adjacentMines = 0
       /\ t.board = openCellRecursive(board, row, col)

\* C15 witness: in a game under way, a reveal call spreads from a zero-count
\* cell, makes recursive calls and opens more than one cell.
C15_Witness ==
  /\ last = "safe"
  /\ \E row \in Index, col \in Index :
       LET t == runOf(board, row, col)
       IN Len(t.opens) >= 2 /\ t.calls >= 4 /\ t.spread # {}

\* C16: a reveal leaves is_mine, is_flagged and adjacent_mines of every cell
\* as they were; only is_open may differ.
C16_RevealChangesOnlyIsOpen ==
  [][\A p \in Cells :
       /\ board'[p].isMine = board[p].isMine
       /\ board'[p].isFlagged = board[p].isFlagged
       /\ board'[p].adjacentMines = board[p].adjacentMines]_vars

\* C16 witness: a reveal has opened a cell next to a mine, whose count is
\* still the number of mines around it.
C16_Witness ==
  /\ last = "safe"
  /\ \E p \in Cells :
       /\ board[p].isOpen
       /\ board[p].adjacentMines > 0
       /\ board[p].adjacentMines = countAdjacentMines(board, p[1], p[2])

\* C17: right after a restart every cell is closed and unflagged, the board
\* has exactly MINES_COUNT mines and every cell without a mine counts the
\* mines around it, the game is neither won nor lost, no second has elapsed
\* and the timer is active.
C17_RestartReplacesTheGame ==
  last = "restart" =>
    /\ \A p \in Cells : ~board[p].isOpen /\ ~board[p].isFlagged
    /\ Cardinality(Mines(board)) = MINES_COUNT
    /\ \A p \in Cells :
         ~board[p].isMine =>
           board[p].adjacentMines = Cardinality(Neighbours(p) \cap Mines(board))
    /\ ~isGameOver /\ ~isGameWon
    /\ timer = 0
    /\ isTimerActive

\* C17 witness: a game has just been restarted, on a board whose corner is
\* mined.
C17_Witness ==
  last = "restart" /\ board[<<0, 0>>].isMine /\ ~showAllMines

\* C18: after any sequence of reveals, ticks and restarts the game is never
\* both lost and won.
C18_WinAndLossExclusive == ~(isGameOver /\ isGameWon)

\* C18 witness: a reveal was attempted on a won game after seconds had
\* elapsed, and the game is not lost.
C18_Witness ==
  last = "noop_ended" /\ isGameWon /\ ~isGameOver /\ timer > 0

OpenCount(b) == Cardinality({p \in Cells : b[p].isOpen})

SafeCount == BOARD_SIZE * BOARD_SIZE - MINES_COUNT

\* The board after a player reveals closed, unflagged cells without a mine,
\* one at a time, until checkWin holds or the given number of reveals is used.
RECURSIVE PlayToWin(_, _)
PlayToWin(b, reveals) ==
  LET closedSafe ==
        {p \in Cells : ~b[p].isMine /\ ~b[p].isOpen /\ ~b[p].isFlagged}
  IN IF checkWin(b) \/ reveals = 0 \/ closedSafe = {}
     THEN b
     ELSE LET p == CHOOSE q \in closedSafe : TRUE
          IN PlayToWin(openCellRecursive(b, p[1], p[2]), reveals - 1)

\* C19: in a game in progress a reveal of a closed, unflagged cell without a
\* mine opens its target and strictly raises the number of open cells; fewer
\* than N*N-M cells are open while the game is in progress, so at most N*N-M
\* such reveals fit in a game; and from every state in progress the
\* remaining reveals of cells without a mine lead to a won board.
C19_BoundedProgress ==
  /\ [](OpenCount(board) <= SafeCount)
  /\ [](~(isGameOver \/ isGameWon) =>
          /\ OpenCount(board) < SafeCount
          /\ \A row \in Index, col \in Index :
               Revealable(row, col) /\ ~board[<<row, col>>].isMine =>
                 openCellRecursive(board, row, col)[<<row, col>>].isOpen
          /\ checkWin(PlayToWin(board, SafeCount - OpenCount(board))))
  /\ [][last' = "safe" => OpenCount(board') > OpenCount(board)]_vars

\* C19 witness: reveals have opened all cells without a mine but one, and
\* the game is still in progress.
C19_Witness ==
  /\ last = "safe"
  /\ ~isGameOver /\ ~isGameWon
  /\ OpenCount(board) = SafeCount - 1

====
